---- MODULE Spec2Model ----
(***************************************************************************)
(* NVMe queue pair driver (nvme_driver/src/queue_pair.rs).                 *)
(*                                                                         *)
(* The model has three layers:                                             *)
(*   - PendingCommands, QueueHandler::run, Issuer::issue_raw and           *)
(*     Issuer::issue_external, translated from queue_pair.rs;              *)
(*   - the collaborators whose code lives in other files of the            *)
(*     repository (SubmissionQueue, CompletionQueue, PageAllocator,        *)
(*     GuestMemory, UhPartition, the mesh channel and the cancel context), *)
(*     modelled from their contracts;                                      *)
(*   - the NVMe controller, the environment of the driver.                 *)
(*                                                                         *)
(* Widths and sizes are scaled down so that wrap-around, slot reuse and    *)
(* full rings are reached: the CID is CID_BITS wide instead of 16, of      *)
(* which CID_KEY_BITS (instead of 10) name the slot.                       *)
(***************************************************************************)
EXTENDS Integers, Sequences, FiniteSets, TLC

(***************************************************************************)
(* Bounds of the model.                                                    *)
(***************************************************************************)
\* Width of the slot key inside a CID (queue_pair.rs:65 has 10).
CID_KEY_BITS == 1
\* Width of a CID, of Wrapping<u16> (queue_pair.rs:68 has 16 bits).
CID_BITS == 2
\* sq_size and cq_size handed to QueuePair::new (at most MAX_SQSIZE, MAX_CQSIZE).
SqSize == 3
CqSize == 3
\* Number of tasks that share the Issuer.
NumCallers == 3

\* log2 of the page size (PAGE_SIZE is 4096), and the width of an address (u64).
PAGE_SHIFT == 4
ADDR_BITS == 12
\* Pages of the bounce pool (at least MIN_PER_QUEUE_PAGES in QueuePair::new).
PoolPages == 3
\* Largest number of guest pages of a PagedRange handed to issue_external.
MaxPages == 4
\* First guest page number of the ranges, first page frame number of the pool.
GuestBaseGpn == 1
PoolBasePfn == 8
\* Number of tasks that call issue_external in SpecExt.
NumExtCallers == 1
\* Inspection requests that may be queued in the channel at once in SpecFlood.
MaxInspects == 2

Callers == 1 .. NumCallers

PAGE_SIZE == 2 ^ PAGE_SHIFT
\* !(PAGE_SIZE as u64 - 1)
INVALID_PAGE_ADDR == ((2 ^ ADDR_BITS) - 1) - (PAGE_SIZE - 1)

(***************************************************************************)
(* Bit operations on naturals, as the code computes them.                  *)
(***************************************************************************)
RECURSIVE BitAnd(_, _)
BitAnd(a, b) ==
    IF a = 0 \/ b = 0 THEN 0
    ELSE (IF a % 2 = 1 /\ b % 2 = 1 THEN 1 ELSE 0) + 2 * BitAnd(a \div 2, b \div 2)

RECURSIVE BitOr(_, _)
BitOr(a, b) ==
    IF a = 0 THEN b
    ELSE IF b = 0 THEN a
    ELSE (IF a % 2 = 1 \/ b % 2 = 1 THEN 1 ELSE 0) + 2 * BitOr(a \div 2, b \div 2)

(***************************************************************************)
(* Constants of impl PendingCommands.                                      *)
(***************************************************************************)
CID_MOD == 2 ^ CID_BITS
CID_KEY_MASK == (2 ^ CID_KEY_BITS) - 1
MAX_CIDS == 2 ^ CID_KEY_BITS
CID_SEQ_OFFSET == (2 ^ CID_KEY_BITS) % CID_MOD

\* The high (sequence tag) bits of a CID.
CidTag(cid) == cid \div MAX_CIDS
NumTags == 2 ^ (CID_BITS - CID_KEY_BITS)

\* "no CID" and "no caller": the first values outside their ranges.
NoCid == CID_MOD
NoCaller == NumCallers + 1

(***************************************************************************)
(* State.                                                                  *)
(***************************************************************************)
VARIABLES
    \* QueueHandler
    hstate,              \* "suspended" | "running" | "exited" | "dropped" | "panicked"
    commands,            \* PendingCommands.commands: the Slab [entries, next]
    next_cid_high_bits,  \* PendingCommands.next_cid_high_bits
    sq,                  \* SubmissionQueue [head, tail, committed_tail]
    cq,                  \* CompletionQueue [head, committed_head]
    \* memory shared with the controller, the interrupt, the request channel
    sqMem,               \* SQ ring: position -> command, NoCmd once fetched
    cqMem,               \* CQ ring: position -> completion, NoCpl once read
    intr,                \* DeviceInterrupt: signalled and not yet polled
    chan,                \* requests in the mesh channel, oldest first
    cancel,              \* Cancel::cancel was called
    \* the controller
    ctrl,                \* [sqHead, cqTail, exec]
    \* the callers of the Issuer
    pc, op, cmd, resp, result, x,
    \* Issuer configuration and collaborators of issue_external
    cfg,                 \* [partition, io_threshold]
    poolFree,            \* free pages of the bounce pool
    pinned,              \* caller -> its guest ranges are pinned
    \* history variables
    assigned,            \* caller -> CID given to its command by insert
    answered,            \* caller -> completions sent to its responder for this call
    slotHist,            \* slot -> CIDs of its latest and previous occupants, and the
                         \*   number of inserts (mod NumTags) before each allocation
    insCount,            \* number of inserts so far, mod NumTags
    arrivals,            \* responders of accepted calls, in channel arrival order, until fetched
    posted,              \* completions in the order the controller posted them, until delivered
    submitted            \* caller -> its current call has sent a command to the handler

hvars == <<hstate, commands, next_cid_high_bits, sq, cq>>
mvars == <<sqMem, cqMem, intr, chan, cancel, ctrl>>
cvars == <<pc, op, cmd, resp, result, x>>
evars == <<cfg, poolFree, pinned>>
gvars == <<assigned, answered, slotHist, insCount, arrivals, posted, submitted>>
vars == <<hvars, mvars, cvars, evars, gvars>>

(***************************************************************************)
(* Values.                                                                 *)
(***************************************************************************)
\* The DPTR the caller c of issue_raw hands in: two addresses of its own.
RawDptr(c) == <<2 * c, 2 * c + 1>>

\* spec::Command: the CID, the data pointer, and (history) the caller it is from.
Command(cid, dptr, owner) == [cid |-> cid, dptr |-> dptr, owner |-> owner]
NoCmd == Command(NoCid, <<0, 0>>, NoCaller)

\* spec::Completion: sqhd, sqid, cid, and the 15 status bits of the status word;
\* (history) whether the controller posted it for a command it had completed before.
Completion(cid, sqhd, sqid, status, stale) ==
    [cid |-> cid, sqhd |-> sqhd, sqid |-> sqid, status |-> status, stale |-> stale]
NoCpl == Completion(NoCid, 0, 0, 0, FALSE)

\* The state of a caller's one-shot response channel.
RespNone == [kind |-> "none", completion |-> NoCpl]
RespClosed == [kind |-> "closed", completion |-> NoCpl]
RespSent(c) == [kind |-> "sent", completion |-> c]

\* Req: an Rpc(command, respond) or an inspection request.
ReqCommand(command, respond) == [type |-> "Command", command |-> command, respond |-> respond]
ReqInspect == [type |-> "Inspect", command |-> NoCmd, respond |-> NoCaller]

(***************************************************************************)
(* slab::Slab as PendingCommands uses it: a vector of entries, the vacant  *)
(* ones chained from `next`, most recently freed first. Key k is           *)
(* entries[k + 1].                                                         *)
(***************************************************************************)
SlabOccupied(command, respond) ==
    [occ |-> TRUE, command |-> command, respond |-> respond, nxt |-> 0]
SlabVacant(nxt) == [occ |-> FALSE, command |-> NoCmd, respond |-> NoCaller, nxt |-> nxt]
SlabNew == [entries |-> <<>>, next |-> 0]
SlabContains(s, k) == k < Len(s.entries) /\ s.entries[k + 1].occ
SlabLen(s) == Cardinality({k \in 1 .. Len(s.entries) : s.entries[k].occ})
SlabVacantKey(s) == s.next
SlabInsertAt(s, v) ==
    IF s.next = Len(s.entries)
    THEN [entries |-> Append(s.entries, v), next |-> s.next + 1]
    ELSE [entries |-> [s.entries EXCEPT ![s.next + 1] = v],
          next |-> s.entries[s.next + 1].nxt]
SlabRemove(s, k) ==
    [entries |-> [s.entries EXCEPT ![k + 1] = SlabVacant(s.next)], next |-> k]

(***************************************************************************)
(* PendingCommands.                                                        *)
(***************************************************************************)
is_full(cmds) == SlabLen(cmds) >= MAX_CIDS
is_empty(cmds) == SlabLen(cmds) = 0

\* insert as it would be without `self.next_cid_high_bits += Self::CID_SEQ_OFFSET`.
insertNoSeqAdvance(cmds, high_bits, command, respond) ==
    LET key == SlabVacantKey(cmds)
        cid == BitOr(key, high_bits)
        withCid == [command EXCEPT !.cid = cid]
    IN  IF ~(key < MAX_CIDS) \/ high_bits % CID_SEQ_OFFSET # 0
        THEN [ok |-> FALSE, commands |-> cmds, high_bits |-> high_bits, command |-> command]
        ELSE [ok |-> TRUE,
              commands |-> SlabInsertAt(cmds, SlabOccupied(withCid, respond)),
              high_bits |-> high_bits,
              command |-> withCid]

\* insert as it would be if it advanced the sequence counter by one.
insertSeqByOne(cmds, high_bits, command, respond) ==
    LET key == SlabVacantKey(cmds)
        cid == BitOr(key, high_bits)
        withCid == [command EXCEPT !.cid = cid]
    IN  IF ~(key < MAX_CIDS) \/ high_bits % CID_SEQ_OFFSET # 0
        THEN [ok |-> FALSE, commands |-> cmds, high_bits |-> high_bits, command |-> command]
        ELSE [ok |-> TRUE,
              commands |-> SlabInsertAt(cmds, SlabOccupied(withCid, respond)),
              high_bits |-> (high_bits + 1) % CID_MOD,
              command |-> withCid]

\* insert: the new state and the command with its CID, or the failed assertion.
insert(cmds, high_bits, command, respond) ==
    LET key == SlabVacantKey(cmds)
        cid == BitOr(key, high_bits)
        withCid == [command EXCEPT !.cid = cid]
    IN  IF ~(key < MAX_CIDS) \/ high_bits % CID_SEQ_OFFSET # 0
        THEN [ok |-> FALSE, commands |-> cmds, high_bits |-> high_bits, command |-> command]
        ELSE [ok |-> TRUE,
              commands |-> SlabInsertAt(cmds, SlabOccupied(withCid, respond)),
              high_bits |-> (high_bits + CID_SEQ_OFFSET) % CID_MOD,
              command |-> withCid]

\* remove as it would be without the assert_eq on the stored CID.
removeNoSeqCheck(cmds, cid) ==
    LET key == BitAnd(cid, CID_KEY_MASK)
    IN  IF ~SlabContains(cmds, key)
        THEN [ok |-> FALSE, commands |-> cmds, respond |-> NoCaller]
        ELSE [ok |-> TRUE, commands |-> SlabRemove(cmds, key),
              respond |-> cmds.entries[key + 1].respond]

\* remove as it would be if it read the entry without taking it out of the slab.
removeLeavingEntry(cmds, cid) ==
    LET key == BitAnd(cid, CID_KEY_MASK)
    IN  IF ~SlabContains(cmds, key)
        THEN [ok |-> FALSE, commands |-> cmds, respond |-> NoCaller]
        ELSE IF cmds.entries[key + 1].command.cid # cid
        THEN [ok |-> FALSE, commands |-> cmds, respond |-> NoCaller]
        ELSE [ok |-> TRUE, commands |-> cmds,
              respond |-> cmds.entries[key + 1].respond]

\* remove: the new state and the responder, or the failed expect / assert_eq.
remove(cmds, cid) ==
    LET key == BitAnd(cid, CID_KEY_MASK)
    IN  IF ~SlabContains(cmds, key)
        THEN [ok |-> FALSE, commands |-> cmds, respond |-> NoCaller]
        ELSE IF cmds.entries[key + 1].command.cid # cid
        THEN [ok |-> FALSE, commands |-> SlabRemove(cmds, key), respond |-> NoCaller]
        ELSE [ok |-> TRUE, commands |-> SlabRemove(cmds, key),
              respond |-> cmds.entries[key + 1].respond]

(***************************************************************************)
(* SubmissionQueue and CompletionQueue (queues.rs): rings over one page    *)
(* each, with the doorbell value last written.                             *)
(***************************************************************************)
Qid == 1
SqAdvance(i) == (i + 1) % SqSize
CqAdvance(i) == (i + 1) % CqSize
SqIsFull(q) == SqAdvance(q.tail) = q.head
SqWrite(q) == [q EXCEPT !.tail = SqAdvance(q.tail)]
SqUpdateHead(q, sqhd) == [q EXCEPT !.head = sqhd]
SqCommit(q) == [q EXCEPT !.committed_tail = q.tail]
CqRead(q, mem) == mem[q.head]
CqAdvanceHead(q) == [q EXCEPT !.head = CqAdvance(q.head)]
CqCommit(q) == [q EXCEPT !.committed_head = q.head]

(***************************************************************************)
(* Results of the Issuer's calls.                                          *)
(***************************************************************************)
\* The status codes a completion carries: success and two errors.
StatusOk == 0
ErrStatuses == {1, 2}
ResNone == [kind |-> "none", completion |-> NoCpl, status |-> 0]
ResOk(c) == [kind |-> "Ok", completion |-> c, status |-> 0]
ResNvme(st) == [kind |-> "Nvme", completion |-> NoCpl, status |-> st]
ResErr(kind) == [kind |-> kind, completion |-> NoCpl, status |-> 0]

\* The match of issue_raw without the guard on the status of the completion.
IssueRawResultAnyStatus(r) ==
    IF r.kind = "sent" THEN ResOk(r.completion) ELSE ResErr("Gone")

\* The match of issue_raw on what the call into the channel returned.
IssueRawResult(r) ==
    IF r.kind = "sent" /\ r.completion.status = 0 THEN ResOk(r.completion)
    ELSE IF r.kind = "sent" THEN ResNvme(r.completion.status)
    ELSE ResErr("Gone")

(***************************************************************************)
(* Helpers over the state.                                                 *)
(***************************************************************************)
HandlerAlive == hstate \in {"suspended", "running"}
Slots == 0 .. (MAX_CIDS - 1)
PendingKeys(cmds) == {k \in 0 .. (Len(cmds.entries) - 1) : cmds.entries[k + 1].occ}
PendingResponders(cmds) == {cmds.entries[k + 1].respond : k \in PendingKeys(cmds)}
ChanResponders(ch) == {ch[i].respond : i \in {j \in 1 .. Len(ch) : ch[j].type = "Command"}}
\* Dropping the responders of the callers in S closes their one-shot channels.
DropResponders(S) ==
    [c \in Callers |-> IF c \in S /\ resp[c].kind = "none" THEN RespClosed ELSE resp[c]]
RECURSIVE RemoveFirst(_, _)
RemoveFirst(seq, e) ==
    IF seq = <<>> THEN <<>>
    ELSE IF Head(seq) = e THEN Tail(seq)
    ELSE <<Head(seq)>> \o RemoveFirst(Tail(seq), e)
SeqWithout(seq, S) == SelectSeq(seq, LAMBDA e : e \notin S)

NoSlotHist == [cur |-> NoCid, prev |-> NoCid, curAt |-> 0, prevAt |-> 0]

(***************************************************************************)
(* QueueHandler::run. One action is one turn of the loop: the poll_fn and  *)
(* the match on the event it returned. A handler that is "suspended" has   *)
(* returned Poll::Pending; it runs again when a source it polled is ready. *)
(***************************************************************************)
\* The condition as it would be without the test of PendingCommands.
CanPullRequestSqOnly(q, cmds) == ~SqIsFull(q)
\* The condition under which the poll_fn polls the request channel.
CanPullRequest(q, cmds) == ~SqIsFull(q) /\ ~is_full(cmds)
\* A receive that hands out the newest request instead of the oldest.
PollRequestNewest(ch) == ch[Len(ch)]
\* The request the channel hands to recv.poll_next_unpin.
PollRequest(ch) == Head(ch)
RequestReady == CanPullRequest(sq, commands) /\ chan # <<>>
\* A loop that returns the entry after the CQ head when there is one.
PollCompletionSkipping(q, mem) ==
    IF mem[CqAdvance(q.head)] # NoCpl THEN mem[CqAdvance(q.head)] ELSE CqRead(q, mem)
\* The completion the poll_fn returns from its loop over cq.read().
PollCompletion(q, mem) == CqRead(q, mem)

\* The task unwinds: the handler, the receiver and every responder are dropped.
Panic ==
    /\ hstate' = "panicked"
    /\ resp' = DropResponders(PendingResponders(commands) \cup ChanResponders(chan))
    /\ chan' = <<>>
    /\ arrivals' = SeqWithout(arrivals, ChanResponders(chan))
    /\ UNCHANGED <<commands, next_cid_high_bits, sq, cq, sqMem, cqMem, intr, cancel, ctrl>>
    /\ UNCHANGED <<pc, op, cmd, result, x, evars>>
    /\ UNCHANGED <<assigned, answered, slotHist, insCount, posted, submitted>>

\* Event::Request(Req::Command(Rpc(command, respond))).
HandleCommand ==
    /\ HandlerAlive
    /\ RequestReady
    /\ PollRequest(chan).type = "Command"
    /\ LET req == PollRequest(chan)
           ins == insert(commands, next_cid_high_bits, req.command, req.respond)
           key == SlabVacantKey(commands)
       IN  IF ~ins.ok \/ SqIsFull(sq)
           THEN Panic
           ELSE /\ hstate' = "running"
                /\ commands' = ins.commands
                /\ next_cid_high_bits' = ins.high_bits
                /\ sqMem' = [sqMem EXCEPT ![sq.tail] = ins.command]
                /\ sq' = SqWrite(sq)
                /\ chan' = RemoveFirst(chan, req)
                /\ assigned' = [assigned EXCEPT ![req.respond] = ins.command.cid]
                /\ slotHist' = [slotHist EXCEPT ![key] =
                                   [cur |-> ins.command.cid, prev |-> slotHist[key].cur,
                                    curAt |-> insCount, prevAt |-> slotHist[key].curAt]]
                /\ insCount' = (insCount + 1) % NumTags
                /\ UNCHANGED <<cq, cqMem, intr, cancel, ctrl, cvars, evars>>
                /\ UNCHANGED <<answered, arrivals, posted, submitted>>

\* Event::Request(Req::Inspect(deferred)): reads the handler, changes nothing.
HandleInspect ==
    /\ HandlerAlive
    /\ RequestReady
    /\ PollRequest(chan).type = "Inspect"
    /\ hstate' = "running"
    /\ chan' = RemoveFirst(chan, PollRequest(chan))
    /\ UNCHANGED <<commands, next_cid_high_bits, sq, cq, sqMem, cqMem, intr, cancel, ctrl>>
    /\ UNCHANGED <<cvars, evars, gvars>>

\* Event::Completion(completion) as it would be handled without
\* self.sq.update_head(completion.sqhd).
HandleCompletionNoHeadUpdate ==
    /\ HandlerAlive
    /\ ~RequestReady
    /\ ~is_empty(commands)
    /\ PollCompletion(cq, cqMem) # NoCpl
    /\ LET completion == PollCompletion(cq, cqMem)
           rem == remove(commands, completion.cid)
       IN  IF completion.sqid # Qid \/ ~rem.ok
           THEN Panic
           ELSE /\ hstate' = "running"
                /\ cq' = CqAdvanceHead(cq)
                /\ cqMem' = [cqMem EXCEPT ![cq.head] = NoCpl]
                /\ commands' = rem.commands
                /\ resp' = [resp EXCEPT ![rem.respond] = RespSent(completion)]
                /\ answered' = [answered EXCEPT ![rem.respond] = @ + 1]
                /\ posted' = RemoveFirst(posted, completion)
                /\ UNCHANGED <<next_cid_high_bits, sq, sqMem, intr, chan, cancel, ctrl>>
                /\ UNCHANGED <<pc, op, cmd, result, x, evars>>
                /\ UNCHANGED <<assigned, slotHist, insCount, arrivals, submitted>>

\* Event::Completion(completion).
HandleCompletion ==
    /\ HandlerAlive
    /\ ~RequestReady
    /\ ~is_empty(commands)
    /\ PollCompletion(cq, cqMem) # NoCpl
    /\ LET completion == PollCompletion(cq, cqMem)
           rem == remove(commands, completion.cid)
       IN  IF completion.sqid # Qid \/ ~rem.ok
           THEN Panic
           ELSE /\ hstate' = "running"
                /\ cq' = CqAdvanceHead(cq)
                /\ cqMem' = [cqMem EXCEPT ![cq.head] = NoCpl]
                /\ commands' = rem.commands
                /\ sq' = SqUpdateHead(sq, completion.sqhd)
                /\ resp' = [resp EXCEPT ![rem.respond] = RespSent(completion)]
                /\ answered' = [answered EXCEPT ![rem.respond] = @ + 1]
                /\ posted' = RemoveFirst(posted, completion)
                /\ UNCHANGED <<next_cid_high_bits, sqMem, intr, chan, cancel, ctrl>>
                /\ UNCHANGED <<pc, op, cmd, result, x, evars>>
                /\ UNCHANGED <<assigned, slotHist, insCount, arrivals, submitted>>

\* A poll_fn that returns Poll::Pending without committing the doorbells.
SuspendWithoutCommit ==
    /\ hstate = "running"
    /\ ~RequestReady
    /\ is_empty(commands) \/ PollCompletion(cq, cqMem) = NoCpl
    /\ hstate' = "suspended"
    /\ intr' = IF is_empty(commands) THEN intr ELSE FALSE
    /\ UNCHANGED <<commands, next_cid_high_bits, sq, cq, sqMem, cqMem, chan, cancel, ctrl>>
    /\ UNCHANGED <<cvars, evars, gvars>>

\* Nothing is ready: the interrupt is polled while commands are pending, both
\* doorbells are committed and the poll_fn returns Poll::Pending.
Suspend ==
    /\ hstate = "running"
    /\ ~RequestReady
    /\ is_empty(commands) \/ PollCompletion(cq, cqMem) = NoCpl
    /\ hstate' = "suspended"
    /\ intr' = IF is_empty(commands) THEN intr ELSE FALSE
    /\ sq' = SqCommit(sq)
    /\ cq' = CqCommit(cq)
    /\ UNCHANGED <<commands, next_cid_high_bits, sqMem, cqMem, chan, cancel, ctrl>>
    /\ UNCHANGED <<cvars, evars, gvars>>

(***************************************************************************)
(* QueuePair: shutdown, the end of the task, the drop of what it returned. *)
(***************************************************************************)
Shutdown ==
    /\ ~cancel
    /\ cancel' = TRUE
    /\ UNCHANGED <<hvars, sqMem, cqMem, intr, chan, ctrl, cvars, evars, gvars>>

\* An end of the task that would leave the receiver, and the requests queued
\* in it, alive.
HandlerExitKeepingReceiver ==
    /\ cancel
    /\ hstate = "suspended"
    /\ hstate' = "exited"
    /\ UNCHANGED <<commands, next_cid_high_bits, sq, cq, mvars, cvars, evars, gvars>>

\* until_cancelled drops the future of run at a suspension: the receiver goes,
\* the QueueHandler (with PendingCommands) is the task's output.
HandlerExit ==
    /\ cancel
    /\ hstate = "suspended"
    /\ hstate' = "exited"
    /\ resp' = DropResponders(ChanResponders(chan))
    /\ chan' = <<>>
    /\ arrivals' = SeqWithout(arrivals, ChanResponders(chan))
    /\ UNCHANGED <<commands, next_cid_high_bits, sq, cq, sqMem, cqMem, intr, cancel, ctrl>>
    /\ UNCHANGED <<pc, op, cmd, result, x, evars>>
    /\ UNCHANGED <<assigned, answered, slotHist, insCount, posted, submitted>>

\* The owner drops the value shutdown returned, and the responders with it.
HandlerDrop ==
    /\ hstate = "exited"
    /\ hstate' = "dropped"
    /\ resp' = DropResponders(PendingResponders(commands))
    /\ UNCHANGED <<commands, next_cid_high_bits, sq, cq, mvars>>
    /\ UNCHANGED <<pc, op, cmd, result, x, evars, gvars>>

\* impl Inspect for QueuePair: an inspection request enters the channel.
\* shutdown consumes the QueuePair, so none is sent after it.
Inspect ==
    /\ ~cancel
    /\ HandlerAlive
    /\ \A i \in 1 .. Len(chan) : chan[i].type # "Inspect"
    /\ chan' = Append(chan, ReqInspect)
    /\ UNCHANGED <<hvars, sqMem, cqMem, intr, cancel, ctrl, cvars, evars, gvars>>

(***************************************************************************)
(* The NVMe controller: it fetches the commands below the SQ tail doorbell *)
(* in ring order, completes them in any order, and posts each completion   *)
(* with its current SQ head while the CQ has room above the CQ head        *)
(* doorbell.                                                               *)
(***************************************************************************)
CtrlFetch ==
    /\ ctrl.sqHead # sq.committed_tail
    /\ ctrl' = [ctrl EXCEPT !.sqHead = SqAdvance(ctrl.sqHead),
                            !.exec = ctrl.exec \cup {sqMem[ctrl.sqHead]}]
    /\ sqMem' = [sqMem EXCEPT ![ctrl.sqHead] = NoCmd]
    /\ arrivals' = RemoveFirst(arrivals, sqMem[ctrl.sqHead].owner)
    /\ UNCHANGED <<hvars, cqMem, intr, chan, cancel, cvars, evars>>
    /\ UNCHANGED <<assigned, answered, slotHist, insCount, posted, submitted>>

CtrlPost(completion) ==
    /\ CqAdvance(ctrl.cqTail) # cq.committed_head
    /\ cqMem' = [cqMem EXCEPT ![ctrl.cqTail] = completion]
    /\ intr' = TRUE
    /\ posted' = Append(posted, completion)

CtrlFinish(command, status) ==
    /\ CtrlPost(Completion(command.cid, ctrl.sqHead, Qid, status, FALSE))
    /\ ctrl' = [ctrl EXCEPT !.cqTail = CqAdvance(ctrl.cqTail),
                            !.exec = ctrl.exec \ {command}]
    /\ UNCHANGED <<hvars, sqMem, chan, cancel, cvars, evars>>
    /\ UNCHANGED <<assigned, answered, slotHist, insCount, arrivals, submitted>>

\* A command succeeds.
CtrlComplete == \E command \in ctrl.exec : CtrlFinish(command, StatusOk)

\* A command fails with an NVMe status.
CtrlCompleteError ==
    \E command \in ctrl.exec, status \in ErrStatuses : CtrlFinish(command, status)

\* A controller outside its contract: it posts a completion again for a command
\* that was already completed, the previous occupant of a slot.
CtrlStale ==
    \E k \in Slots :
        /\ slotHist[k].prev # NoCid
        /\ CtrlPost(Completion(slotHist[k].prev, ctrl.sqHead, Qid, StatusOk, TRUE))
        /\ ctrl' = [ctrl EXCEPT !.cqTail = CqAdvance(ctrl.cqTail)]
        /\ UNCHANGED <<hvars, sqMem, chan, cancel, cvars, evars>>
        /\ UNCHANGED <<assigned, answered, slotHist, insCount, arrivals, submitted>>

(***************************************************************************)
(* Issuer::issue_raw.                                                      *)
(***************************************************************************)
\* self.send.call(Req::Command, command): the Rpc enters the channel, or is
\* dropped with its responder when the receiver is gone.
SendCall(c, command) ==
    /\ cmd' = [cmd EXCEPT ![c] = command]
    /\ pc' = [pc EXCEPT ![c] = "await"]
    /\ submitted' = [submitted EXCEPT ![c] = TRUE]
    /\ assigned' = [assigned EXCEPT ![c] = NoCid]
    /\ answered' = [answered EXCEPT ![c] = 0]
    /\ IF HandlerAlive
       THEN /\ chan' = Append(chan, ReqCommand(command, c))
            /\ resp' = [resp EXCEPT ![c] = RespNone]
            /\ arrivals' = Append(arrivals, c)
       ELSE /\ resp' = [resp EXCEPT ![c] = RespClosed]
            /\ UNCHANGED <<chan, arrivals>>

RawCall(c) ==
    /\ pc[c] = "idle"
    /\ SendCall(c, Command(0, RawDptr(c), c))
    /\ op' = [op EXCEPT ![c] = "raw"]
    /\ result' = [result EXCEPT ![c] = ResNone]
    /\ UNCHANGED <<hvars, sqMem, cqMem, intr, cancel, ctrl, x, evars>>
    /\ UNCHANGED <<slotHist, insCount, posted>>

RawReturn(c) ==
    /\ pc[c] = "await"
    /\ op[c] \in {"raw", "neither"}
    /\ resp[c].kind # "none"
    /\ result' = [result EXCEPT ![c] = IssueRawResult(resp[c])]
    /\ pc' = [pc EXCEPT ![c] = "done"]
    /\ UNCHANGED <<hvars, mvars, op, cmd, resp, x, evars, gvars>>

(***************************************************************************)
(* Collaborators of issue_external: the PagedRange, GuestMemory, the       *)
(* PageAllocator of the bounce pool.                                       *)
(***************************************************************************)
\* A PagedRange: `n` guest pages from GuestBaseGpn, the first `offset` bytes skipped.
Mems ==
    {[n |-> 0, offset |-> 0]} \cup
    {[n |-> n, offset |-> o] : n \in 1 .. MaxPages, o \in {0, PAGE_SIZE \div 2}}
MemLen(mem) == mem.n * PAGE_SIZE - mem.offset
MemGpns(mem) == [i \in 1 .. mem.n |-> GuestBaseGpn + (i - 1)]
\* guest_memory.iova(gpa): guest memory is identity mapped for the device.
Iova(gpa) == gpa
GpnIovas(mem) == [i \in 1 .. mem.n |-> Iova(MemGpns(mem)[i] * PAGE_SIZE)]

\* spec::Opcode: the two data direction bits.
Opcodes == {[h2c |-> TRUE, c2h |-> FALSE], [h2c |-> FALSE, c2h |-> TRUE],
            [h2c |-> FALSE, c2h |-> FALSE]}

\* PageAllocator: alloc_pages(n) is None when the pool never holds n pages, and
\* otherwise waits for n free pages; the pages are released when dropped.
PoolAll == 1 .. PoolPages
PagesFor(bytes) == (bytes + PAGE_SIZE - 1) \div PAGE_SIZE
AllocFails(n) == n > PoolPages
AllocReady(free, n) == Cardinality(free) >= n
RECURSIVE TakePages(_, _)
TakePages(free, n) ==
    IF n = 0 THEN <<>>
    ELSE LET p == CHOOSE q \in free : \A r \in free : q <= r
         IN  <<p>> \o TakePages(free \ {p}, n - 1)
SeqRange(seq) == {seq[i] : i \in 1 .. Len(seq)}
physical_address(p) == (PoolBasePfn + p) * PAGE_SIZE

(***************************************************************************)
(* Issuer::make_prp.                                                       *)
(***************************************************************************)
\* Entries of 8 bytes that the PRP list page holds.
PrpListCap == PAGE_SIZE \div 8
\* Whether make_prp has to wait for a page of the pool.
PrpNeedsPage(iovas) == Len(iovas) > 2
\* The bound of the assertion on the IOVAs after the first: 4096 in the source,
\* eight times the 512 entries a page holds.
PrpAssertMax == 8 * PrpListCap
\* assert!(iovas.len() <= 4096), evaluated after the first IOVA was taken.
PrpAccepts(iovas) == Len(iovas) - 1 <= PrpAssertMax
\* A make_prp that leaves the unused entries of the DPTR zero.
make_prpZeroUnused(offset, iovas, page) ==
    IF Len(iovas) = 0
    THEN [dptr |-> <<0, 0>>, pages |-> {}, list |-> <<>>]
    ELSE IF Len(iovas) = 1
    THEN [dptr |-> <<iovas[1] + offset, 0>>, pages |-> {}, list |-> <<>>]
    ELSE IF Len(iovas) = 2
    THEN [dptr |-> <<iovas[1] + offset, iovas[2]>>, pages |-> {}, list |-> <<>>]
    ELSE LET rest == Tail(iovas)
             written == IF Len(rest) <= PrpListCap THEN rest ELSE SubSeq(rest, 1, PrpListCap)
         IN  [dptr |-> <<iovas[1] + offset, physical_address(page)>>,
              pages |-> {page}, list |-> written]
\* The Prp it builds: the DPTR, the PRP list page it holds and what it wrote there.
make_prp(offset, iovas, page) ==
    IF Len(iovas) = 0
    THEN [dptr |-> <<INVALID_PAGE_ADDR, INVALID_PAGE_ADDR>>, pages |-> {}, list |-> <<>>]
    ELSE IF Len(iovas) = 1
    THEN [dptr |-> <<iovas[1] + offset, INVALID_PAGE_ADDR>>, pages |-> {}, list |-> <<>>]
    ELSE IF Len(iovas) = 2
    THEN [dptr |-> <<iovas[1] + offset, iovas[2]>>, pages |-> {}, list |-> <<>>]
    ELSE LET rest == Tail(iovas)
             written == IF Len(rest) <= PrpListCap THEN rest ELSE SubSeq(rest, 1, PrpListCap)
         IN  [dptr |-> <<iovas[1] + offset, physical_address(page)>>,
              pages |-> {page}, list |-> written]
NoPrp == [dptr |-> <<0, 0>>, pages |-> {}, list |-> <<>>]

(***************************************************************************)
(* Issuer::issue_external. Its locals are x[c]; it is cut where it awaits: *)
(* at alloc_bytes, at make_prp (alloc_pages) and at issue_raw.             *)
(***************************************************************************)
XNone ==
    [opcode |-> [h2c |-> FALSE, c2h |-> FALSE],
     mem |-> [n |-> 0, offset |-> 0],
     is_pinned |-> FALSE,             \* is_pinned / is_memory_pinned
     double_buffer_pages |-> <<>>,    \* the pages of Some(pages)
     has_double_buffer |-> FALSE,     \* double_buffer_pages.is_some()
     prp_offset |-> 0,                \* the arguments of the pending make_prp
     prp_iovas |-> <<>>,
     prp |-> NoPrp,
     path |-> "none",                 \* history: the buffer strategy taken
     alloc_failed |-> FALSE,          \* history: alloc_bytes returned None
     probe |-> "none",                \* history: the results of probe_gpns,
     copy_in |-> "none",              \*   copy_from_guest_memory,
     copy_out |-> "none",             \*   copy_to_guest_memory
     unpin |-> "none"]                \*   and unpin_gpa_ranges: "none" | "ok" | "failed"

\* The test that sends a request to the pin path before any bounce allocation.
PinAboveThreshold(cfgv, len) == cfgv.io_threshold.some /\ cfgv.partition /\ len > cfgv.io_threshold.val
\* The test as it would be if the fallback were never taken.
PinAfterAllocFailureNever(cfgv) == FALSE
\* The test that pins after alloc_bytes returned None, instead of failing TooLarge.
PinAfterAllocFailure(cfgv) == cfgv.partition
\* A copy into the bounce pages whose error is not propagated.
CopyInFailsIgnored(opcode, copyOk) == FALSE
\* Whether copy_from_guest_memory is called and fails (the `?` then returns).
CopyInFails(opcode, copyOk) == opcode.h2c /\ ~copyOk

\* What would follow issue_raw if its error were returned at once (`.await?`).
AfterIssueReturningEarly(xc, r, copyOk, unpinOk) ==
    IF r.kind # "Ok"
    THEN [res |-> r, copy_out |-> "none", unpin |-> "none"]
    ELSE IF xc.has_double_buffer /\ xc.opcode.c2h /\ ~copyOk
    THEN [res |-> ResErr("Memory"), copy_out |-> "failed", unpin |-> "none"]
    ELSE LET copied == IF xc.has_double_buffer /\ xc.opcode.c2h THEN "ok" ELSE "none"
         IN  IF xc.is_pinned /\ ~unpinOk
             THEN [res |-> ResErr("Hv"), copy_out |-> copied, unpin |-> "failed"]
             ELSE [res |-> r, copy_out |-> copied,
                   unpin |-> IF xc.is_pinned THEN "ok" ELSE "none"]

\* What would follow issue_raw if the error of unpin_gpa_ranges were discarded.
AfterIssueIgnoringUnpinError(xc, r, copyOk, unpinOk) ==
    IF xc.has_double_buffer /\ r.kind = "Ok" /\ xc.opcode.c2h /\ ~copyOk
    THEN [res |-> ResErr("Memory"), copy_out |-> "failed", unpin |-> "none"]
    ELSE [res |-> r,
          copy_out |-> IF xc.has_double_buffer /\ r.kind = "Ok" /\ xc.opcode.c2h
                       THEN "ok" ELSE "none",
          unpin |-> IF ~xc.is_pinned THEN "none" ELSE IF unpinOk THEN "ok" ELSE "failed"]

\* What would follow issue_raw if the copy back did not test r.is_ok().
AfterIssueCopyAlways(xc, r, copyOk, unpinOk) ==
    IF xc.has_double_buffer /\ xc.opcode.c2h /\ ~copyOk
    THEN [res |-> ResErr("Memory"), copy_out |-> "failed", unpin |-> "none"]
    ELSE LET copied == IF xc.has_double_buffer /\ xc.opcode.c2h THEN "ok" ELSE "none"
         IN  IF xc.is_pinned /\ ~unpinOk
             THEN [res |-> ResErr("Hv"), copy_out |-> copied, unpin |-> "failed"]
             ELSE [res |-> r, copy_out |-> copied,
                   unpin |-> IF xc.is_pinned THEN "ok" ELSE "none"]

\* What follows issue_raw: the copy back, the unpin, the value returned.
AfterIssue(xc, r, copyOk, unpinOk) ==
    IF xc.has_double_buffer /\ r.kind = "Ok" /\ xc.opcode.c2h /\ ~copyOk
    THEN [res |-> ResErr("Memory"), copy_out |-> "failed", unpin |-> "none"]
    ELSE LET copied == IF xc.has_double_buffer /\ r.kind = "Ok" /\ xc.opcode.c2h
                       THEN "ok" ELSE "none"
         IN  IF xc.is_pinned /\ ~unpinOk
             THEN [res |-> ResErr("Hv"), copy_out |-> copied, unpin |-> "failed"]
             ELSE [res |-> r, copy_out |-> copied,
                   unpin |-> IF xc.is_pinned THEN "ok" ELSE "none"]

\* The call returns `res`; its scoped pages go back to the pool.
ExtFinish(c, res, xc) ==
    /\ result' = [result EXCEPT ![c] = res]
    /\ pc' = [pc EXCEPT ![c] = "done"]
    /\ x' = [x EXCEPT ![c] = xc]
    /\ poolFree' = poolFree \cup SeqRange(xc.double_buffer_pages) \cup xc.prp.pages

\* The pin path: pin_gpa_ranges, then make_prp over the IOVAs of the guest pages.
ExtPin(c, xc, pathName) ==
    \E pinOk \in BOOLEAN :
        IF pinOk
        THEN /\ pinned' = [pinned EXCEPT ![c] = TRUE]
             /\ x' = [x EXCEPT ![c] = [xc EXCEPT !.is_pinned = TRUE, !.path = pathName,
                                                 !.prp_offset = xc.mem.offset,
                                                 !.prp_iovas = GpnIovas(xc.mem)]]
             /\ pc' = [pc EXCEPT ![c] = "make_prp"]
             /\ UNCHANGED <<result, poolFree>>
        ELSE /\ ExtFinish(c, ResErr("Hv"), [xc EXCEPT !.path = pathName])
             /\ UNCHANGED pinned

\* From the call to the choice between the pin path and the bounce allocation.
ExtCall(c) ==
    /\ pc[c] = "idle"
    /\ op' = [op EXCEPT ![c] = "ext"]
    /\ \E opcode \in Opcodes, mem \in Mems, probeOk \in BOOLEAN :
         LET xc == [XNone EXCEPT !.opcode = opcode, !.mem = mem,
                                 !.probe = IF probeOk THEN "ok" ELSE "failed"]
         IN  /\ opcode.c2h \/ opcode.h2c \/ mem.n = 0
             /\ IF ~probeOk
                THEN ExtFinish(c, ResErr("Memory"), xc) /\ UNCHANGED pinned
                ELSE IF PinAboveThreshold(cfg, MemLen(mem))
                THEN ExtPin(c, xc, "pin")
                ELSE /\ x' = [x EXCEPT ![c] = xc]
                     /\ pc' = [pc EXCEPT ![c] = "alloc"]
                     /\ UNCHANGED <<result, poolFree, pinned>>
    /\ submitted' = [submitted EXCEPT ![c] = FALSE]
    /\ UNCHANGED <<hvars, mvars, cmd, resp, cfg>>
    /\ UNCHANGED <<assigned, answered, slotHist, insCount, arrivals, posted>>

\* self.alloc.alloc_bytes(mem.len()).await and the match on what it returned.
ExtAlloc(c) ==
    /\ pc[c] = "alloc"
    /\ LET n == PagesFor(MemLen(x[c].mem))
           pages == TakePages(poolFree, n)
           failed == [x[c] EXCEPT !.alloc_failed = TRUE]
           got == [x[c] EXCEPT !.double_buffer_pages = pages, !.has_double_buffer = TRUE,
                               !.path = "bounce", !.prp_offset = 0,
                               !.prp_iovas = [i \in 1 .. n |-> physical_address(pages[i])]]
       IN  IF AllocFails(n)
           THEN IF PinAfterAllocFailure(cfg)
                THEN ExtPin(c, failed, "pin_fallback")
                ELSE ExtFinish(c, ResErr("TooLarge"), failed) /\ UNCHANGED pinned
           ELSE /\ AllocReady(poolFree, n)
                /\ \E copyOk \in BOOLEAN :
                     IF CopyInFails(x[c].opcode, copyOk)
                     THEN /\ result' = [result EXCEPT ![c] = ResErr("Memory")]
                          /\ pc' = [pc EXCEPT ![c] = "done"]
                          /\ x' = [x EXCEPT ![c] = [x[c] EXCEPT !.path = "bounce",
                                                               !.copy_in = "failed"]]
                          /\ UNCHANGED <<poolFree, pinned>>
                     ELSE /\ (x[c].opcode.h2c \/ copyOk)
                          /\ poolFree' = poolFree \ SeqRange(pages)
                          /\ x' = [x EXCEPT ![c] =
                                     [got EXCEPT !.copy_in =
                                         IF ~x[c].opcode.h2c THEN "none"
                                         ELSE IF copyOk THEN "ok" ELSE "failed"]]
                          /\ pc' = [pc EXCEPT ![c] = "make_prp"]
                          /\ UNCHANGED <<result, pinned>>
    /\ UNCHANGED <<hvars, mvars, op, cmd, resp, cfg, gvars>>

\* make_prp(..).await, command.dptr = prp.dptr, and the send of issue_raw.
ExtIssue(c) ==
    /\ pc[c] = "make_prp"
    /\ IF PrpNeedsPage(x[c].prp_iovas) /\ ~PrpAccepts(x[c].prp_iovas)
       THEN \* the assertion fails: the calling task unwinds and drops its pages
            /\ pc' = [pc EXCEPT ![c] = "panicked"]
            /\ poolFree' = poolFree \cup SeqRange(x[c].double_buffer_pages)
            /\ x' = [x EXCEPT ![c] = [x[c] EXCEPT !.double_buffer_pages = <<>>]]
            /\ UNCHANGED <<chan, cmd, resp, assigned, answered, arrivals, submitted>>
       ELSE /\ PrpNeedsPage(x[c].prp_iovas) => AllocReady(poolFree, 1)
            /\ LET page == IF PrpNeedsPage(x[c].prp_iovas)
                           THEN TakePages(poolFree, 1)[1] ELSE 0
                   prp == make_prp(x[c].prp_offset, x[c].prp_iovas, page)
               IN  /\ x' = [x EXCEPT ![c] = [x[c] EXCEPT !.prp = prp]]
                   /\ poolFree' = poolFree \ prp.pages
                   /\ SendCall(c, Command(0, prp.dptr, c))
    /\ UNCHANGED <<hvars, sqMem, cqMem, intr, cancel, ctrl, op, result, cfg, pinned>>
    /\ UNCHANGED <<slotHist, insCount, posted>>

\* From the return of issue_raw to the return of issue_external.
ExtReturn(c) ==
    /\ pc[c] = "await"
    /\ op[c] = "ext"
    /\ resp[c].kind # "none"
    /\ LET r == IssueRawResult(resp[c])
       IN  \E copyOk \in BOOLEAN, unpinOk \in BOOLEAN :
             LET out == AfterIssue(x[c], r, copyOk, unpinOk)
             IN  \* each outcome once: a result that was not consulted is taken as Ok
                 /\ copyOk \/ out.copy_out = "failed"
                 /\ unpinOk \/ out.unpin = "failed"
                 /\ pinned' = [pinned EXCEPT ![c] = IF out.unpin = "ok" THEN FALSE ELSE @]
                 /\ ExtFinish(c, out.res,
                              [x[c] EXCEPT !.copy_out = out.copy_out, !.unpin = out.unpin])
    /\ UNCHANGED <<hvars, mvars, op, cmd, resp, cfg, gvars>>

(***************************************************************************)
(* Issuer::issue_neither: issue_raw with both DPTR entries invalid.        *)
(***************************************************************************)
NeitherCall(c) ==
    /\ pc[c] = "idle"
    /\ SendCall(c, Command(0, <<INVALID_PAGE_ADDR, INVALID_PAGE_ADDR>>, c))
    /\ op' = [op EXCEPT ![c] = "neither"]
    /\ result' = [result EXCEPT ![c] = ResNone]
    /\ UNCHANGED <<hvars, sqMem, cqMem, intr, cancel, ctrl, x, evars>>
    /\ UNCHANGED <<slotHist, insCount, posted>>

(***************************************************************************)
(* Issuer::issue_in and Issuer::issue_out. x[c].mem stands for the slice   *)
(* `data`: MemLen(x[c].mem) is data.len(), at least one byte.              *)
(***************************************************************************)
\* A prp() without the assertion on page_count.
ScopedPagesPrpAnyCount(pages) ==
    [ok |-> TRUE, dptr |-> <<physical_address(pages[1]), INVALID_PAGE_ADDR>>]
\* ScopedPages::prp: the assertion, and the DPTR over the one page.
ScopedPagesPrp(pages) ==
    [ok |-> Len(pages) = 1,
     dptr |-> <<physical_address(pages[1]), INVALID_PAGE_ADDR>>]

\* The call, up to the await of alloc_bytes.
IoCall(c) ==
    /\ pc[c] = "idle"
    /\ \E o \in {"in", "out"}, mem \in {m \in Mems : m.n >= 1} :
         /\ op' = [op EXCEPT ![c] = o]
         /\ x' = [x EXCEPT ![c] = [XNone EXCEPT !.mem = mem]]
    /\ pc' = [pc EXCEPT ![c] = "io_alloc"]
    /\ result' = [result EXCEPT ![c] = ResNone]
    /\ submitted' = [submitted EXCEPT ![c] = FALSE]
    /\ UNCHANGED <<hvars, mvars, cmd, resp, evars>>
    /\ UNCHANGED <<assigned, answered, slotHist, insCount, arrivals, posted>>

\* alloc_bytes(data.len()).await.expect(..), mem.write(data) in issue_in,
\* mem.prp(), and the send of issue_raw. A failed expect or assertion unwinds
\* the calling task, which drops the pages.
IoAlloc(c) ==
    /\ pc[c] = "io_alloc"
    /\ LET n == PagesFor(MemLen(x[c].mem))
           pages == TakePages(poolFree, n)
           prp == ScopedPagesPrp(pages)
       IN  IF AllocFails(n)
           THEN /\ pc' = [pc EXCEPT ![c] = "panicked"]
                /\ UNCHANGED <<chan, cmd, resp, x, poolFree, gvars>>
           ELSE /\ AllocReady(poolFree, n)
                /\ IF ~prp.ok
                   THEN /\ pc' = [pc EXCEPT ![c] = "panicked"]
                        /\ x' = [x EXCEPT ![c] =
                                   [x[c] EXCEPT !.copy_in = IF op[c] = "in" THEN "ok" ELSE "none"]]
                        /\ UNCHANGED <<chan, cmd, resp, poolFree, gvars>>
                   ELSE /\ poolFree' = poolFree \ SeqRange(pages)
                        /\ x' = [x EXCEPT ![c] =
                                   [x[c] EXCEPT !.double_buffer_pages = pages,
                                                !.has_double_buffer = TRUE,
                                                !.path = "bounce",
                                                !.copy_in = IF op[c] = "in" THEN "ok" ELSE "none"]]
                        /\ SendCall(c, Command(0, prp.dptr, c))
                        /\ UNCHANGED <<slotHist, insCount, posted>>
    /\ UNCHANGED <<hvars, sqMem, cqMem, intr, cancel, ctrl, op, result, cfg, pinned>>

\* From the return of issue_raw to the return of the call: issue_out reads the
\* pages into `data` whatever issue_raw returned.
IoReturn(c) ==
    /\ pc[c] = "await"
    /\ op[c] \in {"in", "out"}
    /\ resp[c].kind # "none"
    /\ ExtFinish(c, IssueRawResult(resp[c]),
                 [x[c] EXCEPT !.copy_out = IF op[c] = "out" THEN "ok" ELSE "none"])
    /\ UNCHANGED <<hvars, mvars, op, cmd, resp, cfg, pinned, gvars>>

(***************************************************************************)
(* Specifications.                                                         *)
(***************************************************************************)

Init ==
    /\ hstate = "suspended"
    /\ commands = SlabNew
    /\ next_cid_high_bits = 0
    /\ sq = [head |-> 0, tail |-> 0, committed_tail |-> 0]
    /\ cq = [head |-> 0, committed_head |-> 0]
    /\ sqMem = [i \in 0 .. (SqSize - 1) |-> NoCmd]
    /\ cqMem = [i \in 0 .. (CqSize - 1) |-> NoCpl]
    /\ intr = FALSE
    /\ chan = <<>>
    /\ cancel = FALSE
    /\ ctrl = [sqHead |-> 0, cqTail |-> 0, exec |-> {}]
    /\ pc = [c \in Callers |-> "idle"]
    /\ op = [c \in Callers |-> "raw"]
    /\ cmd = [c \in Callers |-> NoCmd]
    /\ resp = [c \in Callers |-> RespNone]
    /\ result = [c \in Callers |-> ResNone]
    /\ x = [c \in Callers |-> XNone]
    /\ cfg = [partition |-> FALSE, io_threshold |-> [some |-> FALSE, val |-> 0]]
    /\ poolFree = PoolAll
    /\ pinned = [c \in Callers |-> FALSE]
    /\ assigned = [c \in Callers |-> NoCid]
    /\ answered = [c \in Callers |-> 0]
    /\ slotHist = [k \in Slots |-> NoSlotHist]
    /\ insCount = 0
    /\ arrivals = <<>>
    /\ posted = <<>>
    /\ submitted = [c \in Callers |-> FALSE]

Handler == HandleCommand \/ HandleInspect \/ HandleCompletion \/ Suspend
Lifecycle == Shutdown \/ HandlerExit \/ HandlerDrop \/ Inspect
Controller == CtrlFetch \/ CtrlComplete

Next ==
    \/ Handler
    \/ Lifecycle
    \/ Controller
    \/ \E c \in Callers : RawCall(c) \/ RawReturn(c)

Spec == Init /\ [][Next]_vars

NextStale == Next \/ CtrlStale
SpecStale == Init /\ [][NextStale]_vars

\* The scheduling behind shutdown: the handler task is polled while an event is
\* ready and returns Pending when none is, the cancelled task ends at a
\* suspension, the owner drops what shutdown returned, and a caller whose
\* one-shot channel resolved is resumed.
Fairness ==
    /\ WF_vars(Handler)
    /\ SF_vars(HandlerExit)
    /\ WF_vars(HandlerDrop)
    /\ \A c \in Callers : WF_vars(RawReturn(c))
SpecLive == Init /\ [][Next]_vars /\ Fairness

\* issue_raw with a controller that also fails commands.
NextRaw == Next \/ CtrlCompleteError
SpecRaw == Init /\ [][NextRaw]_vars

\* issue_external: NumExtCallers tasks call it, under every Issuer configuration.
InitExt ==
    /\ hstate = "suspended"
    /\ commands = SlabNew
    /\ next_cid_high_bits = 0
    /\ sq = [head |-> 0, tail |-> 0, committed_tail |-> 0]
    /\ cq = [head |-> 0, committed_head |-> 0]
    /\ sqMem = [i \in 0 .. (SqSize - 1) |-> NoCmd]
    /\ cqMem = [i \in 0 .. (CqSize - 1) |-> NoCpl]
    /\ intr = FALSE
    /\ chan = <<>>
    /\ cancel = FALSE
    /\ ctrl = [sqHead |-> 0, cqTail |-> 0, exec |-> {}]
    /\ pc = [c \in Callers |-> IF c <= NumExtCallers THEN "idle" ELSE "done"]
    /\ op = [c \in Callers |-> "ext"]
    /\ cmd = [c \in Callers |-> NoCmd]
    /\ resp = [c \in Callers |-> RespNone]
    /\ result = [c \in Callers |-> ResNone]
    /\ x = [c \in Callers |-> XNone]
    /\ cfg \in {[partition |-> p, io_threshold |-> t] :
                  p \in BOOLEAN,
                  t \in {[some |-> FALSE, val |-> 0], [some |-> TRUE, val |-> PAGE_SIZE]}}
    /\ poolFree = PoolAll
    /\ pinned = [c \in Callers |-> FALSE]
    /\ assigned = [c \in Callers |-> NoCid]
    /\ answered = [c \in Callers |-> 0]
    /\ slotHist = [k \in Slots |-> NoSlotHist]
    /\ insCount = 0
    /\ arrivals = <<>>
    /\ posted = <<>>
    /\ submitted = [c \in Callers |-> FALSE]

NextExt ==
    \/ Handler
    \/ Lifecycle
    \/ Controller
    \/ CtrlCompleteError
    \/ \E c \in Callers : ExtCall(c) \/ ExtAlloc(c) \/ ExtIssue(c) \/ ExtReturn(c)
    \/ \E c \in Callers : NeitherCall(c) \/ RawReturn(c)

SpecExt == InitExt /\ [][NextExt]_vars

\* issue_in and issue_out: NumExtCallers tasks call them.
InitIo ==
    /\ InitExt
    /\ cfg = [partition |-> FALSE, io_threshold |-> [some |-> FALSE, val |-> 0]]
NextIo ==
    \/ Handler
    \/ Lifecycle
    \/ Controller
    \/ CtrlCompleteError
    \/ \E c \in Callers : IoCall(c) \/ IoAlloc(c) \/ IoReturn(c)
SpecIo == InitIo /\ [][NextIo]_vars

\* issue_raw while inspection requests keep arriving, some still queued when
\* the next is sent. The QueuePair is not shut down.
NumInspects(ch) == Cardinality({i \in 1 .. Len(ch) : ch[i].type = "Inspect"})

\* impl Inspect for QueuePair, called again before the handler has served the
\* request of an earlier call: send does not wait for the handler.
InspectFlood ==
    /\ ~cancel
    /\ HandlerAlive
    /\ NumInspects(chan) < MaxInspects
    /\ chan' = Append(chan, ReqInspect)
    /\ UNCHANGED <<hvars, sqMem, cqMem, intr, cancel, ctrl, cvars, evars, gvars>>

\* The controller completes the command of caller c.
CtrlCompleteFor(c) ==
    \E command \in ctrl.exec : command.owner = c /\ CtrlFinish(command, StatusOk)

\* Commands only: the channel carries no inspection request.
NextCommands ==
    \/ Handler
    \/ Controller
    \/ \E c \in Callers : RawCall(c) \/ RawReturn(c)

NextFlood == NextCommands \/ InspectFlood

\* The handler task is polled while an event is ready; the controller fetches
\* every command below the SQ tail doorbell and completes every command it
\* fetched.
FairnessLoad ==
    /\ WF_vars(Handler)
    /\ WF_vars(CtrlFetch)
    /\ \A c \in Callers : SF_vars(CtrlCompleteFor(c))

\* In addition, a branch of the loop that is ready again and again is taken.
FairnessFlood ==
    /\ FairnessLoad
    /\ SF_vars(HandleCompletion)
    /\ SF_vars(Suspend)

SpecCommands == Init /\ [][NextCommands]_vars /\ FairnessLoad
SpecFlood == Init /\ [][NextFlood]_vars /\ FairnessFlood

(***************************************************************************)
(* Properties.                                                             *)
(***************************************************************************)
\* The callers whose command is in PendingCommands.
Pending(c) == c \in PendingResponders(commands)
Answered(c) == resp[c].kind = "sent"

\* C1: every accepted command is answered at most once, and the completion a
\* caller receives carries exactly the CID insert gave its command: the low bits
\* name the slot the command occupied, the high bits are the tag of that insert;
\* while it is pending, the slot named by its CID holds its responder.
C1_AnsweredOnceWithOwnCid ==
    /\ \A c \in Callers :
         /\ answered[c] <= 1
         /\ Answered(c) =>
              /\ answered[c] = 1
              /\ assigned[c] # NoCid
              /\ resp[c].completion.cid = assigned[c]
         /\ result[c].kind = "Ok" => result[c].completion.cid = assigned[c]
    /\ \A k \in PendingKeys(commands) :
         LET e == commands.entries[k + 1]
         IN  /\ BitAnd(e.command.cid, CID_KEY_MASK) = k
             /\ assigned[e.respond] = e.command.cid
             /\ ~Answered(e.respond)

\* Two callers were answered whose commands occupied the same slot, one after
\* the other, while the controller had posted a completion a second time.
C1_Witness ==
    \E c1, c2 \in Callers :
        /\ c1 # c2
        /\ Answered(c1) /\ Answered(c2)
        /\ BitAnd(assigned[c1], CID_KEY_MASK) = BitAnd(assigned[c2], CID_KEY_MASK)
        /\ CidTag(assigned[c1]) # CidTag(assigned[c2])
        /\ \E i \in DOMAIN cqMem : cqMem[i].stale

\* C4 as stated: the CIDs of two successive occupants of a slot always differ in
\* their tag bits, and no completion posted for an earlier occupant reaches a caller.
C4_SuccessiveTagsDiffer ==
    /\ \A k \in Slots :
         slotHist[k].prev # NoCid => CidTag(slotHist[k].cur) # CidTag(slotHist[k].prev)
    /\ \A c \in Callers : Answered(c) => ~resp[c].completion.stale

\* C4 as amended: the CIDs of two successive occupants of a slot have the same tag
\* exactly when the number of inserts from the first allocation to the second is a
\* multiple of the number of tags (the sequence counter is shared by all slots);
\* a completion posted again for an earlier occupant reaches a caller only when
\* it carries exactly the CID of the caller's own command.
C4_TagsDifferUnlessWrapped ==
    /\ \A k \in Slots :
         slotHist[k].prev # NoCid =>
            (CidTag(slotHist[k].cur) = CidTag(slotHist[k].prev)
                <=> slotHist[k].curAt = slotHist[k].prevAt)
    /\ \A c \in Callers :
         (Answered(c) /\ resp[c].completion.stale) => resp[c].completion.cid = assigned[c]

\* A slot is occupied a second time under another tag, and the completion of its
\* earlier occupant, posted again, has stopped the handler in remove.
C4_Witness ==
    \E k \in PendingKeys(commands) :
        /\ slotHist[k].prev # NoCid
        /\ CidTag(slotHist[k].cur) # CidTag(slotHist[k].prev)
        /\ commands.entries[k + 1].command.cid = slotHist[k].cur
        /\ hstate = "panicked"
        /\ cqMem[cq.head].stale
        /\ cqMem[cq.head].cid = slotHist[k].prev

\* C2: a request leaves the channel for the handler only in a state where neither
\* the SQ nor PendingCommands is full; a full state ends only by the handler
\* consuming a completion; the handler never fails in insert or sq.write, and a
\* command is never written over an SQ entry the controller has not fetched.
Full == SqIsFull(sq) \/ is_full(commands)
Pulled == HandlerAlive /\ chan # <<>> /\ hstate' = "running" /\ chan' = Tail(chan)
C2_Backpressure ==
    [][ /\ Pulled => (~SqIsFull(sq) /\ ~is_full(commands))
        /\ (Full /\ ~Full') => cq.head' # cq.head
        /\ hstate' # "panicked"
        /\ sq.tail' # sq.tail => sqMem[sq.tail] = NoCmd ]_vars

\* The handler has suspended with the SQ and PendingCommands full and a command
\* waiting in the channel.
C2_Witness ==
    /\ hstate = "suspended"
    /\ SqIsFull(sq) /\ is_full(commands)
    /\ ChanResponders(chan) # {}

\* C5: issue_raw returns Ok with the completion exactly when a completion with
\* status 0 arrived, the Nvme error with the status of the completion exactly when
\* one with another status arrived, and Gone exactly when the response channel was
\* closed; every copy of the command carries the DPTR the caller handed in.
CommandCopies ==
    {chan[i].command : i \in {j \in 1 .. Len(chan) : chan[j].type = "Command"}}
    \cup {sqMem[i] : i \in {j \in DOMAIN sqMem : sqMem[j] # NoCmd}}
    \cup ctrl.exec
    \cup {commands.entries[k + 1].command : k \in PendingKeys(commands)}
C5_IssueRawResult ==
    /\ \A c \in Callers :
         (pc[c] = "done" /\ op[c] = "raw") =>
            /\ result[c].kind \in {"Ok", "Nvme", "Gone"}
            /\ result[c].kind = "Ok" <=>
                  (resp[c].kind = "sent" /\ resp[c].completion.status = 0)
            /\ result[c].kind = "Ok" => result[c].completion = resp[c].completion
            /\ result[c].kind = "Nvme" <=>
                  (resp[c].kind = "sent" /\ resp[c].completion.status # 0)
            /\ result[c].kind = "Nvme" => result[c].status = resp[c].completion.status
            /\ result[c].kind = "Gone" <=> resp[c].kind = "closed"
    /\ \A e \in CommandCopies : e.dptr = cmd[e.owner].dptr /\ e.dptr = RawDptr(e.owner)

\* Three calls have returned: one Ok, one the Nvme error, one Gone.
C5_Witness ==
    \E c1, c2, c3 \in Callers :
        /\ pc[c1] = "done" /\ result[c1].kind = "Ok"
        /\ pc[c2] = "done" /\ result[c2].kind = "Nvme" /\ result[c2].status = 2
        /\ pc[c3] = "done" /\ result[c3].kind = "Gone"

\* C6: the handler hands completions to the responders in the order the
\* controller posted them: the completion a caller receives is the oldest one
\* posted and not yet delivered.
C6_DeliveryInPostOrder ==
    [][ \A c \in Callers :
          (~Answered(c) /\ resp'[c].kind = "sent") =>
             (posted # <<>> /\ resp'[c].completion = Head(posted)) ]_vars

\* The command submitted second was answered while the first is still pending.
C6_Witness ==
    \E c1, c2 \in Callers :
        /\ Pending(c1) /\ assigned[c1] = 0
        /\ Answered(c2) /\ assigned[c2] = BitOr(1, CID_SEQ_OFFSET)

\* C7: commands are written to the SQ in the order their requests arrived in the
\* channel: the commands the controller has not fetched, in ring order, followed
\* by the requests still in the channel, are the accepted calls in arrival order.
RECURSIVE SqOwners(_, _)
SqOwners(from, to) ==
    IF from = to THEN <<>> ELSE <<sqMem[from].owner>> \o SqOwners(SqAdvance(from), to)
ChanOwners ==
    LET cs == SelectSeq(chan, LAMBDA r : r.type = "Command")
    IN  [i \in 1 .. Len(cs) |-> cs[i].respond]
C7_SqInArrivalOrder == SqOwners(ctrl.sqHead, sq.tail) \o ChanOwners = arrivals

\* Two commands are on the SQ and a third request waits in the channel.
C7_Witness ==
    /\ Len(SqOwners(ctrl.sqHead, sq.tail)) = 2
    /\ Len(ChanOwners) = 1

\* A call of issue_external that has returned.
ExtDone(c) == pc[c] = "done" /\ op[c] = "ext" /\ result[c].kind # "none"

\* C8 as stated: no call of issue_external returns with the ranges it pinned
\* still pinned.
C8_NothingLeftPinned == \A c \in Callers : ExtDone(c) => ~pinned[c]

\* C8 as amended: a call that pinned the ranges has called unpin_gpa_ranges before
\* it returns, whatever issue_raw returned; the ranges are still pinned at the
\* return only when that unpin itself failed, and the call then returns Hv.
C8_UnpinOnEveryReturn ==
    \A c \in Callers :
        /\ (pc[c] # "done") => (pinned[c] <=> x[c].is_pinned)
        /\ ExtDone(c) =>
             /\ x[c].is_pinned => x[c].unpin \in {"ok", "failed"}
             /\ pinned[c] <=> (x[c].is_pinned /\ x[c].unpin = "failed")
             /\ x[c].unpin = "failed" => result[c].kind = "Hv"

\* A call that pinned after the bounce allocation failed has returned the NVMe
\* error of its command, with the ranges unpinned.
C8_Witness ==
    \E c \in Callers :
        /\ ExtDone(c) /\ x[c].path = "pin_fallback" /\ x[c].is_pinned
        /\ result[c].kind = "Nvme"
        /\ x[c].unpin = "ok" /\ ~pinned[c]

\* C9 as stated: a call that returns the Memory error has submitted no command.
C9_MemoryErrorNothingSubmitted ==
    \A c \in Callers : (ExtDone(c) /\ result[c].kind = "Memory") => ~submitted[c]

\* C9 as amended: a failed probe and a failed copy into the bounce pages return
\* the Memory error with no command submitted; the only other Memory error is the
\* failed copy back into guest memory, returned after the command was submitted
\* and had completed with status 0.
C9_MemoryErrorBeforeSubmitOrAfterSuccess ==
    \A c \in Callers :
        /\ (x[c].probe = "failed" \/ x[c].copy_in = "failed") =>
              (ExtDone(c) /\ result[c].kind = "Memory" /\ ~submitted[c])
        /\ (ExtDone(c) /\ result[c].kind = "Memory") =>
              \/ x[c].probe = "failed"
              \/ x[c].copy_in = "failed"
              \/ /\ x[c].copy_out = "failed"
                 /\ submitted[c]
                 /\ x[c].has_double_buffer /\ x[c].opcode.c2h
                 /\ resp[c].kind = "sent" /\ resp[c].completion.status = 0

\* A call has returned the Memory error after its copy into the bounce pages
\* failed, the pages back in the pool.
C9_Witness ==
    \E c \in Callers :
        /\ ExtDone(c) /\ result[c].kind = "Memory"
        /\ x[c].copy_in = "failed" /\ ~submitted[c]
        /\ poolFree = PoolAll

\* C10: issue_external returns TooLarge exactly when the bounce allocation for
\* mem.len fails and there is no partition, and then nothing was submitted or
\* pinned; when the allocation fails and there is a partition it takes the pin
\* path, submits the command once the pin succeeded, and never returns TooLarge.
C10_TooLargeOnlyWithoutFallback ==
    \A c \in Callers :
        ExtDone(c) =>
            /\ result[c].kind = "TooLarge" <=> (x[c].alloc_failed /\ ~cfg.partition)
            /\ x[c].alloc_failed <=>
                  /\ x[c].probe = "ok"
                  /\ x[c].path # "pin"
                  /\ PagesFor(MemLen(x[c].mem)) > PoolPages
            /\ result[c].kind = "TooLarge" =>
                  (~submitted[c] /\ ~pinned[c] /\ ~x[c].is_pinned /\ x[c].path = "none")
            /\ (x[c].alloc_failed /\ cfg.partition) =>
                  /\ x[c].path = "pin_fallback"
                  /\ x[c].is_pinned => submitted[c]
                  /\ ~x[c].is_pinned => (result[c].kind = "Hv" /\ ~submitted[c])

\* A call for more pages than the pool holds has returned TooLarge.
C10_Witness ==
    \E c \in Callers :
        /\ ExtDone(c) /\ result[c].kind = "TooLarge"
        /\ PagesFor(MemLen(x[c].mem)) > PoolPages
        /\ ~cfg.partition

\* A caller of issue_raw that waits for its response.
Waiting(c) == pc[c] = "await"
\* The handler task has ended by cancellation.
Exited == hstate \in {"exited", "dropped"}
\* No response is sent once the task has ended.
NoCompletionAfterExit ==
    Exited => \A c \in Callers : resp'[c].kind = "sent" => resp[c].kind = "sent"

IoPast(c) == op[c] \in {"in", "out"} /\ pc[c] \notin {"idle", "io_alloc"}

\* C11 as stated: a call of issue_in or issue_out with a two-page buffer submits
\* its command with DPTR = [phys0, phys1] and holds no PRP list page.
C11_TwoPagesAccepted ==
    \A c \in Callers :
        (IoPast(c) /\ PagesFor(MemLen(x[c].mem)) = 2) =>
            /\ submitted[c]
            /\ Len(x[c].double_buffer_pages) = 2
            /\ cmd[c].dptr = <<physical_address(x[c].double_buffer_pages[1]),
                               physical_address(x[c].double_buffer_pages[2])>>
            /\ x[c].prp.pages = {}

\* C11 as amended: issue_in and issue_out submit a command only for data that
\* fits one bounce page, with DPTR = [phys0, INVALID_PAGE_ADDR] and no PRP list
\* page; for data of more than one page the call panics with nothing submitted;
\* issue_out has read the bounce page into the buffer when it returns.
C11_OnePageOnly ==
    \A c \in Callers :
        IoPast(c) =>
            /\ pc[c] = "panicked" <=> PagesFor(MemLen(x[c].mem)) # 1
            /\ pc[c] = "panicked" => (~submitted[c] /\ x[c].double_buffer_pages = <<>>)
            /\ pc[c] # "panicked" =>
                  /\ submitted[c]
                  /\ Len(x[c].double_buffer_pages) = 1
                  /\ cmd[c].dptr = <<physical_address(x[c].double_buffer_pages[1]),
                                     INVALID_PAGE_ADDR>>
                  /\ x[c].prp.pages = {}
                  /\ (op[c] = "in") => x[c].copy_in = "ok"
                  /\ (op[c] = "out" /\ pc[c] = "done") => x[c].copy_out = "ok"

\* A call of issue_out with a buffer of one full page has returned the
\* completion, the bounce page read into the buffer and back in the pool.
C11_Witness ==
    \E c \in Callers :
        /\ op[c] = "out" /\ pc[c] = "done" /\ result[c].kind = "Ok"
        /\ MemLen(x[c].mem) = PAGE_SIZE
        /\ x[c].copy_out = "ok"
        /\ poolFree = PoolAll

\* A call of issue_external whose make_prp has returned.
PrpBuilt(c) == op[c] = "ext" /\ pc[c] \in {"await", "done"} /\ submitted[c]

\* C12: for three or more IOVAs that make_prp accepts, the PRP list page holds
\* the IOVAs after the first, all of them and in order, DPTR[1] is the address
\* of that page and DPTR[0] is the first IOVA plus the offset.
C12_PrpListComplete ==
    \A c \in Callers :
        (PrpBuilt(c) /\ Len(x[c].prp_iovas) >= 3) =>
            /\ x[c].prp.list = Tail(x[c].prp_iovas)
            /\ \E page \in PoolAll :
                  /\ x[c].prp.pages = {page}
                  /\ cmd[c].dptr[2] = physical_address(page)
            /\ cmd[c].dptr[1] = x[c].prp_iovas[1] + x[c].prp_offset

\* The number of data pages behind the DPTR of caller c's command.
DataPages(c) == IF op[c] = "neither" THEN 0 ELSE Len(x[c].prp_iovas)
\* A command of issue_external or issue_neither that was sent to the handler.
DptrBuilt(c) ==
    op[c] \in {"ext", "neither"} /\ pc[c] \in {"await", "done"} /\ submitted[c]

\* C13: in the DPTR of a submitted command built by make_prp or issue_neither,
\* DPTR[0] is INVALID_PAGE_ADDR exactly when there is no data page and DPTR[1]
\* exactly when there is at most one; with one page DPTR[0] is iova0 + offset,
\* with two DPTR = [iova0 + offset, iova1]; the SQ entry carries that DPTR.
C13_InvalidIffNoData ==
    /\ \A c \in Callers :
          DptrBuilt(c) =>
              /\ cmd[c].dptr[1] = INVALID_PAGE_ADDR <=> DataPages(c) = 0
              /\ cmd[c].dptr[2] = INVALID_PAGE_ADDR <=> DataPages(c) <= 1
              /\ DataPages(c) >= 1 =>
                    cmd[c].dptr[1] = x[c].prp_iovas[1] + x[c].prp_offset
              /\ DataPages(c) = 2 => cmd[c].dptr[2] = x[c].prp_iovas[2]
    /\ \A i \in 0 .. (SqSize - 1) :
          sqMem[i] # NoCmd => sqMem[i].dptr = cmd[sqMem[i].owner].dptr

\* A command of issue_external over one bounce page is in the SQ with only
\* DPTR[1] invalid.
C13_Witness ==
    \E c \in Callers, i \in 0 .. (SqSize - 1) :
        /\ DptrBuilt(c) /\ op[c] = "ext" /\ DataPages(c) = 1
        /\ sqMem[i] # NoCmd /\ sqMem[i].owner = c
        /\ sqMem[i].dptr[1] # INVALID_PAGE_ADDR
        /\ sqMem[i].dptr[2] = INVALID_PAGE_ADDR

\* The callers whose command the handler accepted (insert gave it a CID), and
\* those among them whose completion the handler has processed.
Accepted == {c \in Callers : assigned[c] # NoCid}
Completed == {c \in Callers : answered[c] > 0}

\* C14: PendingCommands holds exactly the accepted commands whose completion
\* was not processed yet, so that its length is the number accepted minus the
\* number completed, and it is empty once every accepted command completed.
C14_EmptyAfterRoundTrips ==
    /\ Completed \subseteq Accepted
    /\ PendingResponders(commands) = Accepted \ Completed
    /\ SlabLen(commands) = Cardinality(Accepted) - Cardinality(Completed)
    /\ Completed = Accepted => (is_empty(commands) /\ SlabLen(commands) = 0)

\* Two commands were pending together, in slots 0 and 1, the controller
\* completed the second before the first, and PendingCommands is empty again.
C14_Witness ==
    /\ Cardinality(Accepted) = 2 /\ Completed = Accepted
    /\ Len(commands.entries) = 2 /\ SlabVacantKey(commands) = 0
    /\ is_empty(commands)

\* pin_gpa_ranges was called and failed.
PinFailed(c) == x[c].path \in {"pin", "pin_fallback"} /\ ~x[c].is_pinned

\* C15: a call of issue_external returns Hv exactly when its pin or its unpin
\* failed; after a failed pin no command was submitted; the unpin is attempted
\* only once issue_raw has returned, and its failure replaces whatever
\* issue_raw returned, the completion or the error.
C15_HvOnPinOrUnpinFailure ==
    \A c \in Callers :
        /\ (op[c] = "ext" /\ x[c].unpin # "none") =>
              (submitted[c] /\ resp[c].kind # "none")
        /\ ExtDone(c) =>
              /\ result[c].kind = "Hv" <=> (PinFailed(c) \/ x[c].unpin = "failed")
              /\ PinFailed(c) => (~submitted[c] /\ ~pinned[c] /\ x[c].unpin = "none")
              /\ x[c].unpin = "failed" => (submitted[c] /\ x[c].is_pinned)

\* A call has returned Hv from the unpin although its command had completed
\* with status 0.
C15_Witness ==
    \E c \in Callers :
        /\ ExtDone(c) /\ result[c].kind = "Hv"
        /\ x[c].unpin = "failed"
        /\ resp[c].kind = "sent" /\ resp[c].completion.status = StatusOk

\* The handler is not inside a poll: it returned Pending, or its task has ended
\* at such a suspension.
AtSuspension == hstate \in {"suspended", "exited", "dropped"}

\* C16: whenever the handler is suspended, the SQ tail doorbell holds the tail
\* and the CQ head doorbell holds the head: every command written to the SQ and
\* every CQ entry consumed has had its doorbell written.
C16_DoorbellsCommittedAtSuspension ==
    AtSuspension => (sq.committed_tail = sq.tail /\ cq.committed_head = cq.head)

\* The handler is suspended after it wrote commands and consumed a completion,
\* both doorbells written.
C16_Witness ==
    /\ hstate = "suspended"
    /\ sq.tail # 0 /\ sq.committed_tail = sq.tail
    /\ cq.head # 0 /\ cq.committed_head = cq.head

\* The insert that the handler performs when it takes the next request.
NextInsert ==
    insert(commands, next_cid_high_bits, PollRequest(chan).command, PollRequest(chan).respond)

\* C17: at most MAX_CIDS commands are pending, in slots below MAX_CIDS, the
\* sequence counter is a multiple of CID_SEQ_OFFSET, the low bits of every
\* pending CID are its slot index, and the insert for a request the handler is
\* about to take passes its assertions and hands out a slot below MAX_CIDS.
C17_InsertAssertionsHold ==
    /\ SlabLen(commands) <= MAX_CIDS
    /\ Len(commands.entries) <= MAX_CIDS
    /\ next_cid_high_bits % CID_SEQ_OFFSET = 0
    /\ \A k \in PendingKeys(commands) :
          /\ k < MAX_CIDS
          /\ BitAnd(commands.entries[k + 1].command.cid, CID_KEY_MASK) = k
          /\ CidTag(commands.entries[k + 1].command.cid) * CID_SEQ_OFFSET
                + k = commands.entries[k + 1].command.cid
    /\ (HandlerAlive /\ RequestReady /\ PollRequest(chan).type = "Command") =>
          /\ SlabVacantKey(commands) < MAX_CIDS
          /\ NextInsert.ok
          /\ BitAnd(NextInsert.command.cid, CID_KEY_MASK) = SlabVacantKey(commands)

\* PendingCommands is full, its last slot handed out, the sequence counter has
\* wrapped to 0, and a command waits in the channel.
C17_Witness ==
    /\ HandlerAlive
    /\ SlabLen(commands) = MAX_CIDS
    /\ MAX_CIDS - 1 \in PendingKeys(commands)
    /\ insCount = 0 /\ next_cid_high_bits = 0
    /\ ChanResponders(chan) # {}

\* The command of caller c completed with status 0.
CompletedOk(c) == resp[c].kind = "sent" /\ resp[c].completion.status = StatusOk

\* C18: issue_external calls copy_to_guest_memory exactly when it returns from
\* the double-buffer path after its command completed with status 0 and the
\* opcode transfers controller-to-host; a call that returns the Nvme or the
\* Gone error, and a call still in progress, has written no guest memory.
C18_CopyBackIffSuccess ==
    \A c \in Callers :
        op[c] = "ext" =>
            /\ x[c].copy_out # "none" <=>
                  /\ ExtDone(c)
                  /\ x[c].has_double_buffer /\ x[c].path = "bounce"
                  /\ CompletedOk(c)
                  /\ x[c].opcode.c2h
            /\ (ExtDone(c) /\ result[c].kind \in {"Nvme", "Gone"}) => x[c].copy_out = "none"

\* A controller-to-host command on the double-buffer path completed with an
\* error status: the call returned the Nvme error and copied nothing back.
C18_Witness ==
    \E c \in Callers :
        /\ ExtDone(c) /\ x[c].has_double_buffer /\ x[c].opcode.c2h
        /\ Len(x[c].double_buffer_pages) >= 1
        /\ result[c].kind = "Nvme"
        /\ x[c].copy_out = "none"

\* C19: with a controller that reports its current SQ head in each completion,
\* the SQ is not full whenever PendingCommands is empty; so while a request
\* waits in the channel of a live handler, the handler either can take it or
\* has commands pending whose completions it polls for.
C19_NoStall ==
    /\ is_empty(commands) => ~SqIsFull(sq)
    /\ (HandlerAlive /\ chan # <<>>) => (RequestReady \/ ~is_empty(commands))

\* The SQ was full, both commands completed, PendingCommands is empty and the
\* command that waited in the channel can be taken.
C19_Witness ==
    /\ HandlerAlive
    /\ is_empty(commands) /\ Cardinality(Completed) = 2
    /\ sq.head = sq.tail /\ sq.tail = SqAdvance(SqAdvance(0))
    /\ ChanResponders(chan) # {}
    /\ RequestReady

\* Caller c holds pages of the bounce pool.
HoldsPages(c) == x[c].double_buffer_pages # <<>> \/ x[c].prp.pages # {}
\* Caller c is inside make_prp, at the await of alloc_pages(1).
WaitsForPrpPage(c) ==
    /\ op[c] = "ext" /\ pc[c] = "make_prp"
    /\ PrpNeedsPage(x[c].prp_iovas) /\ PrpAccepts(x[c].prp_iovas)

\* C20: there is no state in which the pool is exhausted and every call that
\* holds pages of it waits in make_prp for one further page, so that no page
\* can ever be released and no waiting call can ever submit its command.
C20_NoPoolDeadlock ==
    ~ (/\ poolFree = {}
       /\ \E c \in Callers : WaitsForPrpPage(c)
       /\ \A c \in Callers : HoldsPages(c) => WaitsForPrpPage(c))

\* The positions of the SQ from the tail doorbell up to the tail.
SqUncommitted ==
    {p \in 0 .. (SqSize - 1) :
        ((p + SqSize) - sq.committed_tail) % SqSize
            < ((sq.tail + SqSize) - sq.committed_tail) % SqSize}
\* The handler has accepted the command of caller c's current call.
AcceptedCall(c) == assigned[c] # NoCid
\* The SQ tail doorbell has been written past the command of caller c.
DoorbellRung(c) ==
    /\ AcceptedCall(c)
    /\ \A p \in SqUncommitted : sqMem[p] = NoCmd \/ sqMem[p].owner # c
\* The completion of caller c's command has been sent to its responder.
Delivered(c) == AcceptedCall(c) /\ resp[c].kind = "sent"

\* C21: with a handler that is polled while an event is ready and a controller
\* that completes every command below the SQ tail doorbell, every command the
\* handler accepted eventually has the doorbell written past it and its
\* completion sent to its caller, also while requests keep arriving on the
\* channel.
C21_AcceptedCompletes ==
    \A c \in Callers :
        /\ AcceptedCall(c) ~> DoorbellRung(c)
        /\ AcceptedCall(c) ~> Delivered(c)
====
